---- MODULE Spec2Model ----
(***************************************************************************)
(* Model of the financial agents of src/financial_agents.py and the AI     *)
(* client of src/azure_openai_client.py.                                   *)
(*                                                                         *)
(* Numbers: Python floats are modelled as exact rationals [n, d] (d > 0),  *)
(* compared by cross-multiplication; time is counted in whole minutes.     *)
(***************************************************************************)
EXTENDS Integers, Sequences, FiniteSets, TLC

(***************************************************************************)
(* Bounds of the model.                                                    *)
(***************************************************************************)
NumCallers == 2          \* concurrent callers of MarketDataAgent.analyze
MaxClock == 15           \* largest clock reading, in minutes
MaxSims == 2             \* runs of the simulation routine
NumRequests == 2         \* concurrent profile analysis requests
MaxAge == 130            \* ages 0..MaxAge
MaxDependents == 8       \* dependents 0..MaxDependents

\* timedelta(minutes=15), in minutes
cache_expiry == 15

NoOne == 0
MarketCallers == 1..NumCallers

\* Amounts by which the wall clock moves forward between two readings.
TickSteps == {5, 10}
\* Amounts by which the wall clock is set back (datetime.now() is naive local time).
BackSteps == {5}
\* Values of np.random.random(), in tenths.
RandomDraws == {2, 5, 7}

VARIABLES
    now,             \* the reading datetime.now() would give
    market_cache,    \* MarketDataAgent.market_cache: {} or one {data, timestamp} entry
    nextId,          \* identity of the next MarketConditions object constructed
    sims,            \* runs of _simulate_market_data so far
    running,         \* the coroutine the event loop is executing (NoOne between tasks)
    mpc,             \* per caller: position in MarketDataAgent.analyze
    mcall,           \* per caller: the locals of its call while it runs
    mresult,         \* per caller: what its last call returned
    analyzer,        \* the FinancialProfileAnalyzer instance: name, expertise, context_history
    ppc,             \* per request: position in the profile analysis
    preq,            \* per request: the profile dict passed in, and whether AI is asked
    presult,         \* per request: outcome and analysis of FinancialProfileAnalyzer.analyze
    pai,             \* per request: outcome of AzureOpenAIClient.analyze_financial_profile
    fn               \* the last call of a scoring function: name, arguments, result

marketVars == <<now, market_cache, nextId, sims, running, mpc, mcall, mresult>>
profileVars == <<analyzer, ppc, preq, presult, pai>>
pureVars == <<fn>>
vars == <<marketVars, profileVars, pureVars>>

NoData == [id |-> 0, market_trend |-> "none", last_updated |-> 0]

NoLocals == [seen |-> {}, market_data |-> "none", market_conditions |-> NoData]

\* The one entry of a non-empty cache slot.
Entry(cache) == CHOOSE e \in cache : TRUE

(***************************************************************************)
(* Numbers.  A Python float is the exact rational [n, d] with d > 0, kept   *)
(* in lowest terms; d = 0 marks the ZeroDivisionError a division raised.   *)
(***************************************************************************)
Abs(x) == IF x < 0 THEN -x ELSE x

RECURSIVE Gcd(_, _)
Gcd(a, b) == IF b = 0 THEN a ELSE Gcd(b, a % b)

R(n, d) ==
    LET g == Gcd(Abs(n), Abs(d))
        s == IF d < 0 THEN -1 ELSE 1
    IN [n |-> (s * n) \div g, d |-> (s * d) \div g]

I(k) == [n |-> k, d |-> 1]
DivError == [n |-> 0, d |-> 0]
IsError(a) == a.d = 0

RAdd(a, b) == R(a.n * b.d + b.n * a.d, a.d * b.d)
RSub(a, b) == R(a.n * b.d - b.n * a.d, a.d * b.d)
RMul(a, b) == R(a.n * b.n, a.d * b.d)
\* a / b: raises ZeroDivisionError when b is zero
RDiv(a, b) == IF b.n = 0 THEN DivError ELSE R(a.n * b.d, a.d * b.n)
RLt(a, b) == a.n * b.d < b.n * a.d
RLe(a, b) == a.n * b.d <= b.n * a.d
RGe(a, b) == RLe(b, a)
RGt(a, b) == RLt(b, a)
RMax(a, b) == IF RGt(b, a) THEN b ELSE a
RMin(a, b) == IF RLt(b, a) THEN b ELSE a

\* round(x, k) with scale = 10^k: the nearest multiple of 1/scale, ties to even
Round(x, scale) ==
    LET num == x.n * scale
        f == num \div x.d
        r == num - f * x.d
        k == IF 2 * r < x.d THEN f
             ELSE IF 2 * r > x.d THEN f + 1
             ELSE IF f % 2 = 0 THEN f ELSE f + 1
    IN R(k, scale)

\* dict.get(key, default)
Get(dict, key, default) == IF key \in DOMAIN dict THEN dict[key] ELSE default

\* sum(dict.values())
RECURSIVE SumOver(_, _)
SumOver(dict, keys) ==
    IF keys = {} THEN 0
    ELSE LET k == CHOOSE x \in keys : TRUE
         IN dict[k] + SumOver(dict, keys \ {k})

SumValues(dict) == SumOver(dict, DOMAIN dict)

EmptyDict == [k \in {} |-> 0]

(***************************************************************************)
(* FinancialProfileAnalyzer                                                *)
(***************************************************************************)
\* Lines 70-78: the savings rate component
savings_component(savings_rate) ==
    IF RGe(savings_rate, R(20, 100)) THEN 40
    ELSE IF RGe(savings_rate, R(15, 100)) THEN 30
    ELSE IF RGe(savings_rate, R(10, 100)) THEN 20
    ELSE IF RGe(savings_rate, R(5, 100)) THEN 10
    ELSE 0

debt_component_strict(debt_to_income) ==
    IF RLt(debt_to_income, R(10, 100)) THEN 30
    ELSE IF RLt(debt_to_income, R(20, 100)) THEN 20
    ELSE IF RLt(debt_to_income, R(30, 100)) THEN 10
    ELSE 0

\* Lines 80-86: the debt-to-income component
debt_component(debt_to_income) ==
    IF RLe(debt_to_income, R(10, 100)) THEN 30
    ELSE IF RLe(debt_to_income, R(20, 100)) THEN 20
    ELSE IF RLe(debt_to_income, R(30, 100)) THEN 10
    ELSE 0

\* Lines 88-94: the emergency fund component
emergency_component(emergency_months) ==
    IF RGe(emergency_months, I(6)) THEN 30
    ELSE IF RGe(emergency_months, I(3)) THEN 20
    ELSE IF RGe(emergency_months, I(1)) THEN 10
    ELSE 0

\* _calculate_financial_health_score
_calculate_financial_health_score(savings_rate, debt_to_income, emergency_months) ==
    LET score == savings_component(savings_rate) + debt_component(debt_to_income)
                 + emergency_component(emergency_months)
    IN IF score < 100 THEN score ELSE 100

\* employment_factors.get(employment, 0.8)
employment_factor(employment) ==
    IF employment = "stable" THEN R(10, 10)
    ELSE IF employment = "moderate" THEN R(8, 10)
    ELSE IF employment = "unstable" THEN R(5, 10)
    ELSE R(8, 10)

\* The weighted sum of lines 100-116, before the clamp.
risk_capacity(age, dependents, employment, savings_rate) ==
    LET age_factor == RMax(I(0), R(65 - age, 40))
        dependents_factor == RMax(I(0), RSub(I(1), R(dependents * 15, 100)))
        savings_factor == RMin(I(1), RMul(savings_rate, I(2)))
    IN RAdd(RAdd(RMul(age_factor, R(3, 10)), RMul(dependents_factor, R(2, 10))),
            RAdd(RMul(employment_factor(employment), R(3, 10)),
                 RMul(savings_factor, R(2, 10))))

Clamp_upper_only(x) == RMin(I(1), x)

\* Line 118: min(1.0, max(0.1, risk_capacity))
Clamp(x) == RMin(I(1), RMax(R(1, 10), x))

\* _calculate_risk_capacity
_calculate_risk_capacity(age, dependents, employment, savings_rate) ==
    Clamp(risk_capacity(age, dependents, employment, savings_rate))

categories ==
    [essential |-> {"housing", "utilities", "groceries", "insurance", "transportation"},
     lifestyle |-> {"dining", "entertainment", "shopping", "subscriptions"},
     financial |-> {"debt_payments", "savings", "investments"}]

\* sum(expenses.get(expense_type, 0) for expense_type in expense_types)
RECURSIVE category_total(_, _)
category_total(expenses, expense_types) ==
    IF expense_types = {} THEN 0
    ELSE LET t == CHOOSE x \in expense_types : TRUE
         IN Get(expenses, t, 0) + category_total(expenses, expense_types \ {t})

_analyze_spending_patterns_categorized(expenses) ==
    LET total_expenses ==
            category_total(expenses, UNION {categories[c] : c \in DOMAIN categories})
    IN IF total_expenses = 0 THEN EmptyDict
       ELSE [category \in DOMAIN categories |->
               LET total == category_total(expenses, categories[category])
               IN [amount |-> total,
                   percentage |-> Round(RMul(RDiv(I(total), I(total_expenses)), I(100)), 10)]]

\* _analyze_spending_patterns
_analyze_spending_patterns(expenses) ==
    LET total_expenses == SumValues(expenses)
    IN IF total_expenses = 0 THEN EmptyDict
       ELSE [category \in DOMAIN categories |->
               LET total == category_total(expenses, categories[category])
               IN [amount |-> total,
                   percentage |-> Round(RMul(RDiv(I(total), I(total_expenses)), I(100)), 10)]]

goal_priority_strict(goal) ==
    IF Get(goal, "timeline", 0) < 5
    THEN <<"Short-term goal: " \o Get(goal, "goal_type", "Unknown")>>
    ELSE <<>>

\* Lines 165-166: what one goal appends
goal_priority(goal) ==
    IF Get(goal, "timeline", 0) <= 5
    THEN <<"Short-term goal: " \o Get(goal, "goal_type", "Unknown")>>
    ELSE <<>>

\* The goal-specific priorities of lines 164-166, in input order.
RECURSIVE goal_priorities(_)
goal_priorities(goals) ==
    IF goals = <<>> THEN <<>>
    ELSE goal_priority(Head(goals)) \o goal_priorities(Tail(goals))

\* _identify_priorities
_identify_priorities(profile_data) ==
    LET age == Get(profile_data, "age", 30)
        current_savings == Get(profile_data, "current_savings", 0)
        monthly_expenses == SumValues(Get(profile_data, "monthly_expenses", EmptyDict))
        goals == Get(profile_data, "investment_goals", <<>>)
    IN (IF current_savings < monthly_expenses * 3
        THEN <<"Build emergency fund (3-6 months expenses)">> ELSE <<>>)
       \o (IF Get(profile_data, "current_debt", 0) > 0
           THEN <<"Reduce high-interest debt">> ELSE <<>>)
       \o (IF age > 25 /\ ~(\E i \in 1..Len(goals) :
                              Get(goals[i], "goal_type", "None") = "retirement")
           THEN <<"Start retirement planning">> ELSE <<>>)
       \o goal_priorities(goals)

\* _identify_improvement_areas
_identify_improvement_areas(savings_rate, debt_to_income, emergency_months) ==
    (IF RLt(savings_rate, R(10, 100))
     THEN <<"Increase savings rate to at least 10%">> ELSE <<>>)
    \o (IF RGt(debt_to_income, R(30, 100))
        THEN <<"Reduce debt-to-income ratio below 30%">> ELSE <<>>)
    \o (IF RLt(emergency_months, I(3))
        THEN <<"Build emergency fund to 3-6 months of expenses">> ELSE <<>>)

positive_ge(x) == x.n >= 0

\* The guard "... if x > 0 else 0" of lines 34, 38 and 42
positive(x) == x.n > 0

\* Line 34: savings_rate
savings_rate_of(monthly_income, total_monthly_expenses) ==
    IF positive(monthly_income)
    THEN RDiv(RSub(monthly_income, I(total_monthly_expenses)), monthly_income)
    ELSE I(0)

\* Lines 37-38: debt_to_income
debt_to_income_of(current_debt, monthly_income) ==
    IF positive(monthly_income)
    THEN RDiv(R(current_debt, 12), monthly_income)
    ELSE I(0)

\* Lines 41-42: emergency_fund_months
emergency_fund_months_of(current_savings, total_monthly_expenses) ==
    IF positive(I(total_monthly_expenses))
    THEN RDiv(I(current_savings), I(total_monthly_expenses))
    ELSE I(0)

NoAnalysis == EmptyDict

analysis_dict_partial(profile_data, savings_rate, debt_to_income, emergency_fund_months) ==
    [financial_health_score |->
         _calculate_financial_health_score(savings_rate, debt_to_income,
                                           emergency_fund_months),
     savings_rate |-> Round(RMul(savings_rate, I(100)), 100),
     debt_to_income_ratio |-> Round(RMul(debt_to_income, I(100)), 100),
     emergency_fund_months |-> Round(emergency_fund_months, 10)]

\* Lines 44-62: the analysis dict assembled from the derived ratios
analysis_dict(profile_data, savings_rate, debt_to_income, emergency_fund_months) ==
    LET age == Get(profile_data, "age", 30)
        dependents == Get(profile_data, "dependents", 0)
        employment_stability == Get(profile_data, "employment_stability", "moderate")
    IN [financial_health_score |->
            _calculate_financial_health_score(savings_rate, debt_to_income,
                                              emergency_fund_months),
        savings_rate |-> Round(RMul(savings_rate, I(100)), 100),
        debt_to_income_ratio |-> Round(RMul(debt_to_income, I(100)), 100),
        emergency_fund_months |-> Round(emergency_fund_months, 10),
        risk_capacity_score |->
            _calculate_risk_capacity(age, dependents, employment_stability, savings_rate),
        spending_breakdown |->
            _analyze_spending_patterns(Get(profile_data, "monthly_expenses", EmptyDict)),
        financial_priorities |-> _identify_priorities(profile_data),
        improvement_areas |->
            _identify_improvement_areas(savings_rate, debt_to_income,
                                        emergency_fund_months)]

analyze_retained(profile_data) ==
    LET held == {s \in DOMAIN ppc : ppc[s] \in {"analyzed", "ai_wait", "ai_returned", "done"}}
        used == IF held = {} THEN profile_data
                ELSE preq[CHOOSE s \in held : TRUE].profile
        monthly_income == R(Get(used, "annual_income", 0), 12)
        total_monthly_expenses == SumValues(Get(used, "monthly_expenses", EmptyDict))
    IN [outcome |-> "returned",
        analysis |->
            analysis_dict(used,
                          savings_rate_of(monthly_income, total_monthly_expenses),
                          debt_to_income_of(Get(used, "current_debt", 0), monthly_income),
                          emergency_fund_months_of(Get(used, "current_savings", 0),
                                                   total_monthly_expenses))]

\* FinancialProfileAnalyzer.analyze: what the call produces for a profile dict,
\* the returned analysis or the exception raised.
analyze(profile_data) ==
    LET annual_income == Get(profile_data, "annual_income", 0)
        monthly_income == R(annual_income, 12)
        total_monthly_expenses ==
            SumValues(Get(profile_data, "monthly_expenses", EmptyDict))
        savings_rate == savings_rate_of(monthly_income, total_monthly_expenses)
        debt_to_income ==
            debt_to_income_of(Get(profile_data, "current_debt", 0), monthly_income)
        emergency_fund_months ==
            emergency_fund_months_of(Get(profile_data, "current_savings", 0),
                                     total_monthly_expenses)
    IN IF IsError(savings_rate) \/ IsError(debt_to_income) \/ IsError(emergency_fund_months)
       THEN [outcome |-> "ZeroDivisionError", analysis |-> NoAnalysis]
       ELSE [outcome |-> "returned",
             analysis |-> analysis_dict(profile_data, savings_rate, debt_to_income,
                                        emergency_fund_months)]

(***************************************************************************)
(* MarketDataAgent                                                         *)
(***************************************************************************)
_is_cache_valid_le(cache, t) ==
    IF cache = {} THEN FALSE
    ELSE t - Entry(cache).timestamp <= cache_expiry

\* _is_cache_valid: a non-empty slot whose age is strictly below cache_expiry
_is_cache_valid(cache, t) ==
    IF cache = {} THEN FALSE
    ELSE t - Entry(cache).timestamp < cache_expiry

\* _simulate_market_data: the trend chosen from the uniform draw r (in tenths)
Trend(r) ==
    IF r > 6 THEN "bullish"
    ELSE IF r < 3 THEN "bearish"
    ELSE "sideways"

NoSuspension_awaits(c) == TRUE

\* The body of analyze holds no await: once the event loop has entered it, no
\* other coroutine runs until it returns or raises.
NoSuspension(c) == running \in {NoOne, c}

CacheOnFailure_cleared(cache) == {}

\* The slot when _simulate_market_data raises: line 215 is never reached.
CacheOnFailure(cache) == cache

MarketInit ==
    /\ now = 0
    /\ market_cache = {}
    /\ nextId = 1
    /\ sims = 0
    /\ running = NoOne
    /\ mpc = [c \in MarketCallers |-> "idle"]
    /\ mcall = [c \in MarketCallers |-> NoLocals]
    /\ mresult = [c \in MarketCallers |-> NoData]

\* A caller creates the coroutine analyze(request_params) and schedules it.
Invoke(c) ==
    /\ mpc[c] = "idle"
    /\ mpc' = [mpc EXCEPT ![c] = "pending"]
    /\ UNCHANGED <<now, market_cache, nextId, sims, running, mcall, mresult>>
    /\ UNCHANGED <<profileVars, pureVars>>

\* Lines 197-198: the cache check, and the return of the cached object on a hit.
CheckCache(c) ==
    /\ mpc[c] = "pending"
    /\ NoSuspension(c)
    /\ IF _is_cache_valid(market_cache, now)
       THEN /\ mpc' = [mpc EXCEPT ![c] = "done"]
            /\ mresult' = [mresult EXCEPT ![c] = Entry(market_cache).data]
            /\ running' = NoOne
            /\ UNCHANGED mcall
       ELSE /\ sims < MaxSims
            /\ mpc' = [mpc EXCEPT ![c] = "simulate"]
            /\ mcall' = [mcall EXCEPT ![c].seen = market_cache]
            /\ running' = c
            /\ UNCHANGED mresult
    /\ UNCHANGED <<now, market_cache, nextId, sims>>
    /\ UNCHANGED <<profileVars, pureVars>>

\* Line 201: the simulation routine returns its data.
Simulate(c) ==
    /\ mpc[c] = "simulate"
    /\ NoSuspension(c)
    /\ \E r \in RandomDraws :
          mcall' = [mcall EXCEPT ![c].market_data = Trend(r)]
    /\ sims' = sims + 1
    /\ mpc' = [mpc EXCEPT ![c] = "construct"]
    /\ running' = c
    /\ UNCHANGED <<now, market_cache, nextId, mresult>>
    /\ UNCHANGED <<profileVars, pureVars>>

\* Line 201: the simulation routine raises; the exception leaves analyze.
SimulateFails(c) ==
    /\ mpc[c] = "simulate"
    /\ NoSuspension(c)
    /\ sims' = sims + 1
    /\ mpc' = [mpc EXCEPT ![c] = "raised"]
    /\ market_cache' = CacheOnFailure(market_cache)
    /\ mcall' = [mcall EXCEPT ![c] = NoLocals]
    /\ running' = NoOne
    /\ UNCHANGED <<now, nextId, mresult>>
    /\ UNCHANGED <<profileVars, pureVars>>

\* Lines 204-212: a new MarketConditions object, last_updated = datetime.now().
Construct(c) ==
    /\ mpc[c] = "construct"
    /\ NoSuspension(c)
    /\ mcall' = [mcall EXCEPT ![c].market_conditions =
                    [id |-> nextId, market_trend |-> mcall[c].market_data,
                     last_updated |-> now]]
    /\ nextId' = nextId + 1
    /\ mpc' = [mpc EXCEPT ![c] = "store"]
    /\ running' = c
    /\ UNCHANGED <<now, market_cache, sims, mresult>>
    /\ UNCHANGED <<profileVars, pureVars>>

\* Lines 215-220: the slot is overwritten wholesale and the new object returned.
Store(c) ==
    /\ mpc[c] = "store"
    /\ NoSuspension(c)
    /\ market_cache' = {[data |-> mcall[c].market_conditions, timestamp |-> now]}
    /\ mresult' = [mresult EXCEPT ![c] = mcall[c].market_conditions]
    /\ mcall' = [mcall EXCEPT ![c] = NoLocals]
    /\ mpc' = [mpc EXCEPT ![c] = "done"]
    /\ running' = NoOne
    /\ UNCHANGED <<now, nextId, sims>>
    /\ UNCHANGED <<profileVars, pureVars>>

\* The caller has taken the result (or the exception) and may call again.
Finish(c) ==
    /\ mpc[c] \in {"done", "raised"}
    /\ mpc' = [mpc EXCEPT ![c] = "idle"]
    /\ mresult' = [mresult EXCEPT ![c] = NoData]
    /\ UNCHANGED <<now, market_cache, nextId, sims, running, mcall>>
    /\ UNCHANGED <<profileVars, pureVars>>

\* Time passes between two readings of datetime.now().
Tick ==
    /\ \E d \in TickSteps : now + d <= MaxClock /\ now' = now + d
    /\ UNCHANGED <<market_cache, nextId, sims, running, mpc, mcall, mresult>>
    /\ UNCHANGED <<profileVars, pureVars>>

\* The wall clock is set back.
ClockSetBack ==
    /\ \E d \in BackSteps : now - d >= 0 /\ now' = now - d
    /\ UNCHANGED <<market_cache, nextId, sims, running, mpc, mcall, mresult>>
    /\ UNCHANGED <<profileVars, pureVars>>

MarketNext ==
    \/ \E c \in MarketCallers : Invoke(c)
    \/ \E c \in MarketCallers : CheckCache(c)
    \/ \E c \in MarketCallers : Simulate(c)
    \/ \E c \in MarketCallers : SimulateFails(c)
    \/ \E c \in MarketCallers : Construct(c)
    \/ \E c \in MarketCallers : Store(c)
    \/ \E c \in MarketCallers : Finish(c)
    \/ Tick
    \/ ClockSetBack

(***************************************************************************)
(* AzureOpenAIClient.analyze_financial_profile                             *)
(***************************************************************************)
\* What the chat completion may carry in response.choices[0].message.content.
Contents ==
    {[json |-> TRUE,
      data |-> [summary |-> "Healthy finances", insights |-> <<"High savings rate">>,
                recommendations |-> <<"Invest the surplus">>,
                confidence_score |-> R(9, 10)]],
     [json |-> TRUE, data |-> EmptyDict],
     [json |-> FALSE, data |-> EmptyDict]}

\* What client.chat.completions.create may raise instead of returning.
TransportErrors == {"APITimeoutError", "APIConnectionError"}

NoResponse == EmptyDict
NoAI == [transport |-> "none", raised |-> FALSE, response |-> NoResponse]

\* Lines 88-94: the fallback analysis
Fallback ==
    [analysis_summary |-> "Unable to generate AI analysis at this time",
     insights |-> <<"Manual analysis recommended">>,
     recommendations |-> <<"Consult with financial advisor">>,
     confidence_score |-> I(0)]

except_handler_reraise(e) == [raised |-> TRUE, response |-> NoResponse]

\* Lines 85-94: except Exception: log and return the fallback analysis
except_handler(e) == [raised |-> FALSE, response |-> Fallback]

\* Lines 75-83: json.loads of the content and the AIAnalysisResponse built from it
try_body(content) ==
    IF content.json
    THEN [raised |-> FALSE,
          response |->
            [analysis_summary |-> Get(content.data, "summary", ""),
             insights |-> Get(content.data, "insights", <<>>),
             recommendations |-> Get(content.data, "recommendations", <<>>),
             confidence_score |-> Get(content.data, "confidence_score", R(8, 10))]]
    ELSE except_handler("JSONDecodeError")

(***************************************************************************)
(* One profile analysis request: FinancialProfileAnalyzer.analyze, then    *)
(* the optional AI enrichment.                                             *)
(***************************************************************************)
Requests == 1..NumRequests

NoRequest == [profile |-> EmptyDict, with_ai |-> FALSE]
NoResult == [outcome |-> "none", analysis |-> NoAnalysis]

Scenario1 ==
    [annual_income |-> 60000, monthly_expenses |-> [housing |-> 1500, dining |-> 300],
     current_savings |-> 9000, current_debt |-> 0, age |-> 30, dependents |-> 0,
     employment_stability |-> "stable",
     investment_goals |-> <<[goal_type |-> "education", timeline |-> 3]>>]

\* The profile dicts the requests carry.
Profiles ==
    {Scenario1,
     [Scenario1 EXCEPT !.annual_income = 0, !.monthly_expenses = [housing |-> 0]],
     [Scenario1 EXCEPT !.annual_income = -12000],
     EmptyDict}

\* Lines 12-15 and 25: FinancialProfileAnalyzer() as __init__ leaves it
NewAnalyzer ==
    [name |-> "ProfileAnalyzer", expertise |-> "Financial Profile Analysis",
     context_history |-> <<>>]

self_after_analyze_logged(self, profile_data) ==
    [self EXCEPT !.context_history =
        IF Len(@) < NumRequests THEN Append(@, profile_data) ELSE @]

\* Lines 27-64: the instance after a call of analyze; the body assigns no
\* attribute of self and calls no method that does.
self_after_analyze(self, profile_data) == self

ProfileInit ==
    /\ analyzer = NewAnalyzer
    /\ ppc = [r \in Requests |-> "idle"]
    /\ preq = [r \in Requests |-> NoRequest]
    /\ presult = [r \in Requests |-> NoResult]
    /\ pai = [r \in Requests |-> NoAI]

\* A caller passes a profile dict in.
Submit(r) ==
    /\ ppc[r] = "idle"
    /\ \E p \in Profiles, w \in BOOLEAN :
          preq' = [preq EXCEPT ![r] = [profile |-> p, with_ai |-> w]]
    /\ ppc' = [ppc EXCEPT ![r] = "submitted"]
    /\ UNCHANGED <<analyzer, presult, pai, marketVars, pureVars>>

\* FinancialProfileAnalyzer.analyze runs without suspending.
Analyze(r) ==
    /\ ppc[r] = "submitted"
    /\ LET result == analyze(preq[r].profile)
       IN /\ presult' = [presult EXCEPT ![r] = result]
          /\ ppc' = [ppc EXCEPT ![r] = IF result.outcome = "returned"
                                       THEN "analyzed" ELSE "done"]
    /\ analyzer' = self_after_analyze(analyzer, preq[r].profile)
    /\ UNCHANGED <<preq, pai, marketVars, pureVars>>

\* The result goes back as it is when no AI narrative is asked for.
ReturnPlain(r) ==
    /\ ppc[r] = "analyzed"
    /\ ~preq[r].with_ai
    /\ ppc' = [ppc EXCEPT ![r] = "done"]
    /\ UNCHANGED <<analyzer, preq, presult, pai, marketVars, pureVars>>

\* Lines 57-64: analyze_financial_profile builds its prompts and awaits the
\* chat completion.
CallAI(r) ==
    /\ ppc[r] = "analyzed"
    /\ preq[r].with_ai
    /\ ppc' = [ppc EXCEPT ![r] = "ai_wait"]
    /\ UNCHANGED <<analyzer, preq, presult, pai, marketVars, pureVars>>

\* Lines 64-83: the completion arrives and the try body runs on its content.
AIResponds(r) ==
    /\ ppc[r] = "ai_wait"
    /\ \E content \in Contents :
          LET out == try_body(content)
          IN pai' = [pai EXCEPT ![r] =
                       [transport |-> IF content.json THEN "json" ELSE "not_json",
                        raised |-> out.raised, response |-> out.response]]
    /\ ppc' = [ppc EXCEPT ![r] = "ai_returned"]
    /\ UNCHANGED <<analyzer, preq, presult, marketVars, pureVars>>

\* Lines 64, 85-94: the awaited call raises (a timeout of the transport, an API
\* error) and the except handler runs.
AIRaises(r) ==
    /\ ppc[r] = "ai_wait"
    /\ \E e \in TransportErrors :
          LET out == except_handler(e)
          IN pai' = [pai EXCEPT ![r] =
                       [transport |-> e, raised |-> out.raised,
                        response |-> out.response]]
    /\ ppc' = [ppc EXCEPT ![r] = "ai_returned"]
    /\ UNCHANGED <<analyzer, preq, presult, marketVars, pureVars>>

\* The analysis goes back to the caller with what the AI call gave; an exception
\* out of the AI call would reach the caller here.
Deliver(r) ==
    /\ ppc[r] = "ai_returned"
    /\ presult' = [presult EXCEPT ![r].outcome =
                      IF pai[r].raised THEN "raised" ELSE presult[r].outcome]
    /\ ppc' = [ppc EXCEPT ![r] = "done"]
    /\ UNCHANGED <<analyzer, preq, pai, marketVars, pureVars>>

\* The caller abandons the request: the coroutine is closed before its first
\* step, or it is cancelled while suspended at the await of line 64
\* (CancelledError is not an Exception: the handler of lines 85-94 lets it
\* through). The frame and the analysis it held are dropped.
Abandon(r) ==
    /\ ppc[r] \in {"submitted", "ai_wait"}
    /\ ppc' = [ppc EXCEPT ![r] = "cancelled"]
    /\ presult' = [presult EXCEPT ![r] = NoResult]
    /\ UNCHANGED <<analyzer, preq, pai, marketVars, pureVars>>

\* The caller has its answer; the request slot is free for the next profile.
Complete(r) ==
    /\ ppc[r] \in {"done", "cancelled"}
    /\ ppc' = [ppc EXCEPT ![r] = "idle"]
    /\ preq' = [preq EXCEPT ![r] = NoRequest]
    /\ presult' = [presult EXCEPT ![r] = NoResult]
    /\ pai' = [pai EXCEPT ![r] = NoAI]
    /\ UNCHANGED <<analyzer, marketVars, pureVars>>

ProfileNext ==
    \/ \E r \in Requests : Submit(r)
    \/ \E r \in Requests : Analyze(r)
    \/ \E r \in Requests : ReturnPlain(r)
    \/ \E r \in Requests : CallAI(r)
    \/ \E r \in Requests : AIResponds(r)
    \/ \E r \in Requests : AIRaises(r)
    \/ \E r \in Requests : Deliver(r)
    \/ \E r \in Requests : Abandon(r)
    \/ \E r \in Requests : Complete(r)

(***************************************************************************)
(* The scoring functions applied to arguments drawn from grids.            *)
(***************************************************************************)
\* savings rates and debt-to-income ratios in thousandths, months in tenths
SavingsRates1000 == {-1000, 0, 49, 50, 99, 100, 149, 150, 199, 200, 640}
DebtRatios1000 == {-10, 0, 99, 100, 101, 200, 201, 300, 301, 1000}
Months10 == {0, 9, 10, 29, 30, 50, 59, 60, 120}

Ages == 0..MaxAge
Dependents == 0..MaxDependents
Employments == {"stable", "moderate", "unstable", "seasonal"}
\* savings rates analyze can derive: negative when expenses exceed income
RiskSavingsRates == {R(-999, 1), R(-1, 2), I(0), R(1, 4), R(16, 25), R(3, 2)}

Incomes == {-12000, 0, 24000, 60000}
ExpenseMaps ==
    {EmptyDict, [housing |-> 0], [housing |-> 1500, dining |-> 300],
     [housing |-> 2000, pets |-> 500], [housing |-> -100, dining |-> 100],
     [housing |-> -100, pets |-> 40]}
Savings == {-100, 0, 5400, 9000}
Debts == {0, 6000, 30000}
Persons == {<<30, 0, "stable">>, <<70, 3, "unstable">>}
GoalLists ==
    {<<>>, <<[goal_type |-> "education", timeline |-> 3]>>,
     <<[goal_type |-> "retirement", timeline |-> 30], [goal_type |-> "home_purchase"]>>}

WideProfiles ==
    {[annual_income |-> ai, monthly_expenses |-> ex, current_savings |-> cs,
      current_debt |-> cd, age |-> ps[1], dependents |-> ps[2],
      employment_stability |-> ps[3], investment_goals |-> gl] :
        ai \in Incomes, ex \in ExpenseMaps, cs \in Savings, cd \in Debts,
        ps \in Persons, gl \in GoalLists}

\* Expense mappings: every mapping of a set of these labels to these amounts.
ExpenseLabels == {"housing", "utilities", "dining", "savings", "pets"}
ExpenseAmounts == {-100, 0, 100, 250}
SpendingMaps == UNION {[labels -> ExpenseAmounts] : labels \in SUBSET ExpenseLabels}

\* Profiles around the thresholds of _identify_priorities.
PriorityAges == {25, 26}
PrioritySavings == {0, 5399, 5400}
PriorityExpenses == {EmptyDict, [housing |-> 1500, dining |-> 300]}
PriorityDebts == {0, 1}
PriorityGoals ==
    {<<>>,
     <<[goal_type |-> "retirement", timeline |-> 30]>>,
     <<[goal_type |-> "retirement", timeline |-> 5]>>,
     <<[goal_type |-> "education", timeline |-> 5],
       [goal_type |-> "home_purchase", timeline |-> 6],
       [goal_type |-> "wealth_building", timeline |-> 0]>>,
     <<[goal_type |-> "education", timeline |-> 3],
       [goal_type |-> "education", timeline |-> 3]>>}

PriorityProfiles ==
    {[current_savings |-> cs, monthly_expenses |-> ex, current_debt |-> cd,
      age |-> age, investment_goals |-> gl] :
        cs \in PrioritySavings, ex \in PriorityExpenses, cd \in PriorityDebts,
        age \in PriorityAges, gl \in PriorityGoals}

PureInit == fn = [name |-> "none", args |-> <<>>, result |-> 0]

CallHealthScore ==
    /\ fn.name = "none"
    /\ \E sr \in SavingsRates1000, dti \in DebtRatios1000, em \in Months10 :
          fn' = [name |-> "_calculate_financial_health_score",
                 args |-> <<sr, dti, em>>,
                 result |-> _calculate_financial_health_score(
                               R(sr, 1000), R(dti, 1000), R(em, 10))]
    /\ UNCHANGED <<marketVars, profileVars>>

CallRiskCapacity ==
    /\ fn.name = "none"
    /\ \E age \in Ages, dependents \in Dependents, employment \in Employments,
          savings_rate \in RiskSavingsRates :
          fn' = [name |-> "_calculate_risk_capacity",
                 args |-> <<age, dependents, employment, savings_rate>>,
                 result |-> _calculate_risk_capacity(age, dependents, employment,
                                                     savings_rate)]
    /\ UNCHANGED <<marketVars, profileVars>>

CallAnalyze ==
    /\ fn.name = "none"
    /\ \E p \in WideProfiles :
          fn' = [name |-> "analyze", args |-> p, result |-> analyze(p)]
    /\ UNCHANGED <<marketVars, profileVars>>

CallSpendingPatterns ==
    /\ fn.name = "none"
    /\ \E expenses \in SpendingMaps :
          fn' = [name |-> "_analyze_spending_patterns", args |-> expenses,
                 result |-> _analyze_spending_patterns(expenses)]
    /\ UNCHANGED <<marketVars, profileVars>>

CallIdentifyPriorities ==
    /\ fn.name = "none"
    /\ \E p \in PriorityProfiles :
          fn' = [name |-> "_identify_priorities", args |-> p,
                 result |-> _identify_priorities(p)]
    /\ UNCHANGED <<marketVars, profileVars>>

PureNext ==
    \/ CallHealthScore
    \/ CallRiskCapacity
    \/ CallAnalyze
    \/ CallSpendingPatterns
    \/ CallIdentifyPriorities

(***************************************************************************)
(* Specifications                                                          *)
(***************************************************************************)
Init == MarketInit /\ ProfileInit /\ PureInit

MarketSpec == Init /\ [][MarketNext]_vars

ProfileSpec == Init /\ [][ProfileNext]_vars

\* The steps that follow the deterministic analysis and that the program takes
\* on its own.
AfterAnalysis(r) == ReturnPlain(r) \/ CallAI(r) \/ Deliver(r)

\* The program's own steps are taken when they can be; the AI service is under
\* no obligation to answer.
LiveProfileSpec == ProfileSpec /\ \A r \in Requests : WF_vars(AfterAnalysis(r))

PureSpec == Init /\ [][PureNext]_vars

\* The two agents of one process side by side: callers run plain profile
\* analyses on the FinancialProfileAnalyzer while a caller uses the market agent.
AgentsNext ==
    \/ \E r \in Requests : Submit(r) /\ ~preq'[r].with_ai
    \/ \E r \in Requests : Analyze(r)
    \/ \E r \in Requests : ReturnPlain(r)
    \/ \E r \in Requests : Abandon(r)
    \/ \E r \in Requests : Complete(r)
    \/ Invoke(1)
    \/ CheckCache(1)
    \/ Simulate(1)
    \/ SimulateFails(1)
    \/ Construct(1)
    \/ Store(1)
    \/ Finish(1)

AgentsSpec == Init /\ [][AgentsNext]_vars

(***************************************************************************)
(* Claims about MarketDataAgent, checked under MarketSpec.                 *)
(***************************************************************************)
FillPath == {"simulate", "construct", "store"}

\* C1: a call returns the cached snapshot, creating no object and leaving the
\* slot unchanged, iff the slot holds an entry with now - timestamp < 15 minutes;
\* otherwise it goes on to produce a new snapshot, and when it returns, the value
\* returned is a new object stored in the slot with the current timestamp.
C1_CacheHitIffFresh ==
    [][\A c \in MarketCallers :
        /\ (mpc[c] = "pending" /\ mpc'[c] # "pending") =>
              LET fresh == /\ market_cache # {}
                           /\ now - Entry(market_cache).timestamp < 15
              IN /\ fresh => /\ mpc'[c] = "done"
                             /\ mresult'[c] = Entry(market_cache).data
                             /\ market_cache' = market_cache
                             /\ nextId' = nextId
                             /\ sims' = sims
                 /\ ~fresh => /\ mpc'[c] = "simulate"
                              /\ market_cache' = market_cache
        /\ (mpc[c] \notin {"pending", "done"} /\ mpc'[c] = "done") =>
              /\ mpc[c] = "store"
              /\ market_cache' = {[data |-> mresult'[c], timestamp |-> now]}
              /\ market_cache # {} => mresult'[c].id # Entry(market_cache).data.id
              /\ \A d \in MarketCallers : mresult'[c].id # mresult[d].id
    ]_vars

\* C1 witness: the second object ever built is in the slot (the first entry had
\* expired), and two calls have returned that same object: a refresh and a hit.
C1_Witness ==
    \E c, d \in MarketCallers :
        /\ c # d
        /\ mpc[c] = "done" /\ mpc[d] = "done"
        /\ mresult[c] = mresult[d]
        /\ mresult[c].id = 2
        /\ market_cache = {[data |-> mresult[c], timestamp |-> 15]}

C5_RefreshFailure ==
    /\ [](\A c \in MarketCallers : mpc[c] = "raised" => running # c)
    /\ [][\A c \in MarketCallers :
            (mpc[c] = "simulate" /\ mpc'[c] # "simulate" /\ mpc'[c] # "construct") =>
                /\ mpc'[c] = "raised"
                /\ market_cache' = market_cache
                /\ mresult'[c] = mresult[c]
                /\ running' = NoOne
       ]_vars

\* C5 witness: one call has failed in the simulation and a later call is in the
\* fill path, running the simulation again.
C5_Witness ==
    \E c, d \in MarketCallers :
        /\ mpc[c] = "raised"
        /\ mpc[d] = "simulate"
        /\ sims = 1

\* C15: every snapshot a call returns at clock reading t was stored in the slot
\* at a time strictly later than t - 15 minutes and not later than t, for every
\* sequence of readings the clock can deliver, and the stored timestamp never
\* decreases from one refresh to the next.
C15_StalenessBound ==
    [][/\ \A c \in MarketCallers :
            (mpc[c] # "done" /\ mpc'[c] = "done") =>
                /\ market_cache' # {}
                /\ Entry(market_cache').data = mresult'[c]
                /\ Entry(market_cache').timestamp > now - 15
                /\ Entry(market_cache').timestamp <= now
       /\ (market_cache # {} /\ market_cache' # {}) =>
             Entry(market_cache').timestamp >= Entry(market_cache).timestamp
    ]_vars

(***************************************************************************)
(* Claims about the scoring functions, checked under PureSpec.             *)
(***************************************************************************)
\* C6: financial_health_score is the sum of three exclusive highest-match tier
\* components: savings rate >=20% 40, >=15% 30, >=10% 20, >=5% 10, else 0;
\* debt-to-income <=10% 30, <=20% 20, <=30% 10, else 0; emergency fund >=6
\* months 30, >=3 20, >=1 10, else 0; each within its cap, the score within
\* 0..100 (0.64, 0, 5.0 months gives 90).
C6_HealthScoreTiers ==
    fn.name = "_calculate_financial_health_score" =>
        LET sr == fn.args[1]
            dti == fn.args[2]
            em == fn.args[3]
            savings == IF sr >= 200 THEN 40 ELSE IF sr >= 150 THEN 30
                       ELSE IF sr >= 100 THEN 20 ELSE IF sr >= 50 THEN 10 ELSE 0
            debt == IF dti <= 100 THEN 30 ELSE IF dti <= 200 THEN 20
                    ELSE IF dti <= 300 THEN 10 ELSE 0
            emergency == IF em >= 60 THEN 30 ELSE IF em >= 30 THEN 20
                         ELSE IF em >= 10 THEN 10 ELSE 0
        IN /\ fn.result = savings + debt + emergency
           /\ savings \in 0..40 /\ debt \in 0..30 /\ emergency \in 0..30
           /\ fn.result \in 0..100
           /\ (sr = 640 /\ dti = 0 /\ em = 50) => fn.result = 90

\* C6 witness: the scorer has been applied to savings rate 0.64, no debt and 5.0
\* months of emergency fund.
C6_Witness ==
    /\ fn.name = "_calculate_financial_health_score"
    /\ fn.args = <<640, 0, 50>>
    /\ fn.result = 90

\* C7: for every age in 0..130, dependents >= 0, any employment_stability and
\* any savings rate, negative ones included, risk_capacity_score lies in
\* [0.1, 1.0] and is never zero; the same holds of the score analyze reports.
C7_RiskCapacityBounded ==
    /\ fn.name = "_calculate_risk_capacity" =>
          /\ fn.result.d > 0
          /\ 10 * fn.result.n >= fn.result.d
          /\ fn.result.n <= fn.result.d
          /\ fn.result.n # 0
    /\ (fn.name = "analyze" /\ fn.result.outcome = "returned") =>
          LET score == fn.result.analysis.risk_capacity_score
          IN score.d > 0 /\ 10 * score.n >= score.d /\ score.n <= score.d

\* C7 witness: the model applied to a retired person with many dependents,
\* unstable employment and a negative savings rate reports the floor 0.1.
C7_Witness ==
    /\ fn.name = "_calculate_risk_capacity"
    /\ fn.args[1] = 130
    /\ fn.args[2] >= 7
    /\ fn.args[3] = "unstable"
    /\ fn.args[4].n < 0
    /\ fn.result = [n |-> 1, d |-> 10]

\* C8: with annual_income 0 the analysis returns savings_rate 0 and
\* debt_to_income_ratio 0; with total monthly expenses 0 it returns
\* emergency_fund_months 0 and the empty spending breakdown; no division error.
C8_ZeroDenominators ==
    fn.name = "analyze" =>
        LET p == fn.args
            total == SumValues(p.monthly_expenses)
        IN /\ (p.annual_income = 0 \/ total = 0) => fn.result.outcome = "returned"
           /\ p.annual_income = 0 =>
                 /\ fn.result.analysis.savings_rate = [n |-> 0, d |-> 1]
                 /\ fn.result.analysis.debt_to_income_ratio = [n |-> 0, d |-> 1]
           /\ total = 0 =>
                 /\ fn.result.analysis.emergency_fund_months = [n |-> 0, d |-> 1]
                 /\ DOMAIN fn.result.analysis.spending_breakdown = {}

\* C8 witness: analyze has returned for a profile with no income, expense entries
\* that add up to 0, savings and debt.
C8_Witness ==
    /\ fn.name = "analyze"
    /\ fn.args.annual_income = 0
    /\ fn.args.monthly_expenses = [housing |-> 0]
    /\ fn.args.current_savings > 0
    /\ fn.args.current_debt > 0
    /\ fn.result.outcome = "returned"

HasNegativeAmount(p) ==
    \/ Get(p, "annual_income", 0) < 0
    \/ Get(p, "current_savings", 0) < 0
    \/ Get(p, "current_debt", 0) < 0
    \/ Get(p, "age", 30) < 0
    \/ Get(p, "dependents", 0) < 0
    \/ \E k \in DOMAIN Get(p, "monthly_expenses", EmptyDict) : p.monthly_expenses[k] < 0

\* |x - num/den| <= 1/(2*scale), for den > 0
RoundedFrom(x, num, den, scale) ==
    /\ x.d > 0
    /\ scale % x.d = 0
    /\ 2 * scale * Abs(x.n * den - num * x.d) <= x.d * den

\* The fixed taxonomy of the expense buckets.
Taxonomy ==
    [essential |-> {"housing", "utilities", "groceries", "insurance", "transportation"},
     lifestyle |-> {"dining", "entertainment", "shopping", "subscriptions"},
     financial |-> {"debt_payments", "savings", "investments"}]

Categorized == Taxonomy.essential \cup Taxonomy.lifestyle \cup Taxonomy.financial

BucketSum(b) == b.essential.amount + b.lifestyle.amount + b.financial.amount

\* The breakdown b of the expense mapping e: three buckets, each the sum of its
\* member labels and its share of the whole total, together no more than the total.
BucketsOf(e, b) ==
    /\ DOMAIN b = {"essential", "lifestyle", "financial"}
    /\ \A c \in DOMAIN b :
          /\ b[c].amount = SumOver(e, DOMAIN e \cap Taxonomy[c])
          /\ RoundedFrom(b[c].percentage, 100 * b[c].amount, SumValues(e), 10)
    /\ BucketSum(b) <= SumValues(e)

NonNegativeWithTotal(e) == (\A k \in DOMAIN e : e[k] >= 0) /\ SumValues(e) > 0

\* C12 as stated: for every expense mapping with non-negative amounts and total
\* > 0 the breakdown has the three buckets, each amount the sum of its member
\* labels, the bucket amounts sum to <= the total with equality iff every label
\* is categorized; other labels count in the percentage denominator only.
C12_BucketsRoundTrip ==
    (fn.name = "_analyze_spending_patterns" /\ NonNegativeWithTotal(fn.args)) =>
        /\ BucketsOf(fn.args, fn.result)
        /\ BucketSum(fn.result) = SumValues(fn.args) <=> DOMAIN fn.args \subseteq Categorized

\* C12 amended: as above, with equality iff every label that carries a non-zero
\* amount is categorized.
C12_BucketsRoundTripNonZero ==
    (fn.name = "_analyze_spending_patterns" /\ NonNegativeWithTotal(fn.args)) =>
        /\ BucketsOf(fn.args, fn.result)
        /\ BucketSum(fn.result) = SumValues(fn.args)
              <=> \A k \in DOMAIN fn.args \ Categorized : fn.args[k] = 0

\* C12 witness: a mapping with two essential labels, a lifestyle label and a
\* label outside the taxonomy: 350 of 700 is 50.0 %, 100 of 700 is 14.3 %.
C12_Witness ==
    /\ fn.name = "_analyze_spending_patterns"
    /\ fn.args = [housing |-> 100, utilities |-> 250, dining |-> 100, pets |-> 250]
    /\ fn.result.essential = [amount |-> 350, percentage |-> [n |-> 50, d |-> 1]]
    /\ fn.result.lifestyle = [amount |-> 100, percentage |-> [n |-> 143, d |-> 10]]
    /\ fn.result.financial = [amount |-> 0, percentage |-> [n |-> 0, d |-> 1]]

\* The goals with timeline <= 5, in input order, each as its priority string.
ShortTermGoals(goals) ==
    LET qualifying == SelectSeq(goals, LAMBDA g : g.timeline <= 5)
    IN [i \in 1..Len(qualifying) |-> "Short-term goal: " \o qualifying[i].goal_type]

\* C13: financial_priorities is exactly, in this order: 'Build emergency fund
\* (3-6 months expenses)' iff current_savings < 3 x total monthly expenses;
\* 'Reduce high-interest debt' iff current_debt > 0; 'Start retirement planning'
\* iff age > 25 and no goal has goal_type retirement; then one 'Short-term goal:
\* {goal_type}' per goal with timeline <= 5, in input order; each rule decided
\* on its own and nothing else appended.
C13_PrioritiesByRule ==
    fn.name = "_identify_priorities" =>
        LET p == fn.args
            goals == p.investment_goals
            fund == IF p.current_savings < 3 * SumValues(p.monthly_expenses)
                    THEN <<"Build emergency fund (3-6 months expenses)">> ELSE <<>>
            debt == IF p.current_debt > 0
                    THEN <<"Reduce high-interest debt">> ELSE <<>>
            retirement ==
                IF p.age > 25 /\ \A i \in 1..Len(goals) : goals[i].goal_type # "retirement"
                THEN <<"Start retirement planning">> ELSE <<>>
        IN fn.result = fund \o debt \o retirement \o ShortTermGoals(goals)

\* C13 witness: a profile for which every rule fires and one of three goals is
\* beyond five years.
C13_Witness ==
    /\ fn.name = "_identify_priorities"
    /\ fn.args.current_savings = 5399
    /\ fn.args.age = 26
    /\ fn.result = <<"Build emergency fund (3-6 months expenses)",
                     "Reduce high-interest debt",
                     "Start retirement planning",
                     "Short-term goal: education",
                     "Short-term goal: wealth_building">>

\* C16: for every profile with non-negative amounts the priority 'Build
\* emergency fund (3-6 months expenses)' is in financial_priorities iff the
\* improvement area 'Build emergency fund to 3-6 months of expenses' is in
\* improvement_areas, also when the total monthly expenses are 0.
C16_EmergencyAdvisoriesAgree ==
    (fn.name = "analyze" /\ fn.result.outcome = "returned"
                         /\ ~HasNegativeAmount(fn.args)) =>
        LET a == fn.result.analysis
        IN (\E i \in 1..Len(a.financial_priorities) :
                a.financial_priorities[i] = "Build emergency fund (3-6 months expenses)")
           <=> (\E i \in 1..Len(a.improvement_areas) :
                   a.improvement_areas[i] = "Build emergency fund to 3-6 months of expenses")

(***************************************************************************)
(* Claims about one analysis request, checked under ProfileSpec.           *)
(***************************************************************************)
ResultKeys ==
    {"financial_health_score", "savings_rate", "debt_to_income_ratio",
     "emergency_fund_months", "risk_capacity_score", "spending_breakdown",
     "financial_priorities", "improvement_areas"}

AIFailures == TransportErrors \cup {"not_json"}

\* C3: a timeout or any other failure of the AI call never raises into the
\* caller: the call returns the 'not available' fallback and the request still
\* returns the full deterministic analysis.
C3_AIFailureRecovered ==
    \A r \in Requests :
        pai[r].transport \in AIFailures =>
            /\ ~pai[r].raised
            /\ pai[r].response.confidence_score = [n |-> 0, d |-> 1]
            /\ pai[r].response.analysis_summary
                   = "Unable to generate AI analysis at this time"
            /\ presult[r].outcome = "returned"
            /\ DOMAIN presult[r].analysis = ResultKeys

\* C3 witness: a request whose AI call timed out is done and has returned.
C3_Witness ==
    \E r \in Requests :
        /\ ppc[r] = "done"
        /\ pai[r].transport = "APITimeoutError"
        /\ presult[r].outcome = "returned"

\* C4: every analysis call whose deterministic part is computed eventually
\* completes, with the AI fields present or absent, also when the AI service
\* never responds (a call its caller abandons counts as ended). Checked under
\* LiveProfileSpec.
C4_AnalysisCompletes ==
    \A r \in Requests : (ppc[r] = "analyzed") ~> (ppc[r] \in {"done", "cancelled"})

\* C9: a profile with a negative amount where a non-negative one is required is
\* answered with InvalidInput and no analysis.
C9_InvalidInputRejected ==
    \A r \in Requests :
        (presult[r].outcome # "none" /\ HasNegativeAmount(preq[r].profile)) =>
            /\ presult[r].outcome = "InvalidInput"
            /\ DOMAIN presult[r].analysis = {}

C14_AnalyzeWritesNoSharedState ==
    [][\A r \in Requests :
          (ppc[r] = "submitted" /\ ppc'[r] # "submitted") =>
              /\ ppc'[r] \in {"analyzed", "cancelled"}
              /\ analyzer' = analyzer
              /\ analyzer = [name |-> "ProfileAnalyzer",
                             expertise |-> "Financial Profile Analysis",
                             context_history |-> <<>>]
              /\ preq' = preq
              /\ market_cache' = market_cache
              /\ \A s \in Requests \ {r} : presult'[s] = presult[s] /\ ppc'[s] = ppc[s]
    ]_vars

\* C14 witness: with a snapshot in the market cache slot, one call has returned
\* its analysis and another, abandoned, has left nothing behind.
C14_Witness ==
    \E r, s \in Requests :
        /\ market_cache # {}
        /\ ppc[r] = "analyzed" /\ presult[r].outcome = "returned"
        /\ preq[r].profile = Scenario1
        /\ ppc[s] = "cancelled" /\ presult[s] = NoResult
        /\ analyzer.context_history = <<>>

====
